---- MODULE Spec2Model ----
(***************************************************************************)
(* Binomial(n, p) sampler of src/src/distributions/binomial.rs:            *)
(* Binomial::new and <Binomial as Distribution<u64>>::sample, driven by a  *)
(* randomness source whose outputs (gen_bool results, gen::<f64> results)  *)
(* are the inputs of the model.                                            *)
(*                                                                         *)
(* Numbers.  Two representations are used.                                 *)
(*  - Exact f64: the values that decide validation, normalisation and      *)
(*    path dispatch (self.p, 1.0 - self.p, n as f64 * p) are IEEE-754      *)
(*    doubles kept exactly: a record [nan, neg, mag] whose magnitude is an *)
(*    integer multiple of 2^-60 held in four limbs of 20 bits (least       *)
(*    significant first; TLC integers have 32 bits).  Subtraction and      *)
(*    multiplication round to 53 significant bits, ties to even, as the    *)
(*    hardware does.                                                       *)
(*  - Fixed point: the rejection path's transcendental arithmetic (tan,    *)
(*    ln, exp, sqrt, log_gamma) is carried out on integers in units of     *)
(*    2^-14 (Fx), truncating; it follows the source expression by          *)
(*    expression at that reduced precision.                                *)
(***************************************************************************)
EXTENDS Integers, Sequences, FiniteSets, TLC

(***************************************************************************)
(* Exact f64 layer                                                         *)
(***************************************************************************)
Base == 2^20

Mag(l0, l1, l2, l3) == <<l0, l1, l2, l3>>

MagZero == Mag(0, 0, 0, 0)

MagLt(a, b) ==
    \/ a[4] < b[4]
    \/ a[4] = b[4] /\ a[3] < b[3]
    \/ a[4] = b[4] /\ a[3] = b[3] /\ a[2] < b[2]
    \/ a[4] = b[4] /\ a[3] = b[3] /\ a[2] = b[2] /\ a[1] < b[1]

MagAdd(a, b) ==
    LET s0 == a[1] + b[1]
        s1 == a[2] + b[2] + (s0 \div Base)
        s2 == a[3] + b[3] + (s1 \div Base)
        s3 == a[4] + b[4] + (s2 \div Base)
    IN  Mag(s0 % Base, s1 % Base, s2 % Base, s3)

\* a - b for a >= b
MagSub(a, b) ==
    LET d0 == a[1] - b[1]
        d1 == a[2] - b[2] + (d0 \div Base)
        d2 == a[3] - b[3] + (d1 \div Base)
        d3 == a[4] - b[4] + (d2 \div Base)
    IN  Mag(d0 % Base, d1 % Base, d2 % Base, d3)

\* k * a for an integer 0 <= k < 2^11
MagMulInt(k, a) ==
    LET t0 == k * a[1]
        t1 == k * a[2] + (t0 \div Base)
        t2 == k * a[3] + (t1 \div Base)
        t3 == k * a[4] + (t2 \div Base)
    IN  Mag(t0 % Base, t1 % Base, t2 % Base, t3)

\* the number of bits of x >= 0
BitLen[x \in Nat] == IF x = 0 THEN 0 ELSE 1 + BitLen[x \div 2]

MagBitLen(a) ==
    IF a[4] # 0 THEN 60 + BitLen[a[4]]
    ELSE IF a[3] # 0 THEN 40 + BitLen[a[3]]
    ELSE IF a[2] # 0 THEN 20 + BitLen[a[2]]
    ELSE BitLen[a[1]]

\* round a magnitude to 53 significant bits, ties to even (the bits dropped
\* lie in the lowest limb for every magnitude below 2^12)
Round53(a) ==
    LET len == MagBitLen(a)
        s == len - 53
    IN  IF s <= 0 THEN a
        ELSE LET r == a[1] % (2^s)
                 half == 2^(s - 1)
                 odd == (a[1] \div (2^s)) % 2 = 1
                 down == Mag(a[1] - r, a[2], a[3], a[4])
                 up == MagAdd(down, Mag(2^s, 0, 0, 0))
             IN  IF r > half \/ (r = half /\ odd) THEN up ELSE down

F64(neg, mag) == [nan |-> FALSE, neg |-> neg, mag |-> mag]

NaN == [nan |-> TRUE, neg |-> FALSE, mag |-> MagZero]

F64Zero == F64(FALSE, MagZero)

F64One == F64(FALSE, Mag(0, 0, 0, 1))

F64Half == F64(FALSE, Mag(0, 0, 2^19, 0))

F64OfInt(k) == F64(FALSE, Mag(0, 0, 0, k))

\* IEEE comparisons: every comparison with a NaN is false, except !=
F64Lt(x, y) ==
    /\ ~x.nan /\ ~y.nan
    /\ \/ x.neg /\ ~y.neg /\ (x.mag # MagZero \/ y.mag # MagZero)
       \/ ~x.neg /\ ~y.neg /\ MagLt(x.mag, y.mag)
       \/ x.neg /\ y.neg /\ MagLt(y.mag, x.mag)

F64Eq(x, y) ==
    /\ ~x.nan /\ ~y.nan
    /\ x.mag = y.mag
    /\ (x.neg = y.neg \/ x.mag = MagZero)

F64Gt(x, y) == F64Lt(y, x)

F64Le(x, y) == F64Lt(x, y) \/ F64Eq(x, y)

F64Ge(x, y) == F64Le(y, x)

F64Ne(x, y) == ~F64Eq(x, y)

\* x - y for x >= 0, rounded
F64Sub(x, y) ==
    IF x.nan \/ y.nan THEN NaN
    ELSE IF y.neg THEN F64(FALSE, Round53(MagAdd(x.mag, y.mag)))
    ELSE IF MagLt(x.mag, y.mag) THEN F64(TRUE, Round53(MagSub(y.mag, x.mag)))
    ELSE F64(FALSE, Round53(MagSub(x.mag, y.mag)))

\* (k as f64) * x for an integer 0 <= k < 2^11 (k as f64 is exact), rounded
F64MulInt(k, x) ==
    IF x.nan THEN NaN ELSE F64(x.neg, Round53(MagMulInt(k, x.mag)))

(***************************************************************************)
(* Fixed-point layer: an Fx is an integer in units of 2^-14.               *)
(***************************************************************************)
FxOne == 2^14

FxOfInt(k) == k * FxOne

\* floor(a * b / 2^14), without intermediate overflow
FxProduct[a \in Int, b \in Int] ==
    LET ah == a \div FxOne
        al == a % FxOne
        bh == b \div FxOne
        bl == b % FxOne
    IN  ah * bh * FxOne + ah * bl + al * bh + ((al * bl) \div FxOne)

\* the product of two f64, truncated
FxMul(a, b) == FxProduct[a, b]

\* the Fx nearest to an exact f64 of magnitude below 2^17, towards zero
FxOfF64(x) ==
    LET m == x.mag[4] * FxOne + (x.mag[3] \div (2^6))
    IN  IF x.neg THEN -m ELSE m

\* f64::floor
FxFloor(x) == (x \div FxOne) * FxOne

\* the largest r in [lo, hi) with r * r <= x, by bisection
SqrtSearch[x \in Nat, lo \in Nat, hi \in Nat] ==
    IF hi - lo <= 1 THEN lo
    ELSE LET mid == (lo + hi) \div 2
         IN  IF FxMul(mid, mid) <= x THEN SqrtSearch[x, mid, hi]
             ELSE SqrtSearch[x, lo, mid]

\* f64::sqrt for x >= 0
FxSqrt(x) == SqrtSearch[x, 0, x + FxOne + 1]

\* floor(a * b / 2^20) for 0 <= b < 2^21
Mul20[a \in Int, b \in Int] ==
    LET ah == a \div (2^10)
        al == a % (2^10)
        bh == b \div (2^10)
        bl == b % (2^10)
    IN  ah * bh + ((ah * bl + al * bh + ((al * bl) \div (2^10))) \div (2^10))

\* the fractional bits of log2(y / 2^20) for 2^20 <= y < 2^21, by repeated
\* squaring
Log2Bits[y \in Nat, k \in Nat] ==
    IF k = 0 THEN 0
    ELSE LET sq == Mul20[y, y]
         IN  IF sq >= 2^21 THEN 2^(k - 1) + Log2Bits[sq \div 2, k - 1]
             ELSE Log2Bits[sq, k - 1]

\* ln(t / 2^frac) in units of 2^-20 for an integer t > 0
\* (ln 2 = 0.693147 = 726817 / 2^20)
Ln20(t, frac) ==
    LET len == BitLen[t]
        y == IF len >= 21 THEN t \div (2^(len - 21)) ELSE t * (2^(21 - len))
    IN  Mul20[(len - 1 - frac) * (2^20) + Log2Bits[y, 20], 726817]

\* f64::ln of an exact f64 in (0, 1), read in units of 2^-30
FxLnF64(x) == Ln20(x.mag[3] * (2^10) + (x.mag[2] \div (2^10)), 30) \div (2^6)

\* ln((m - 1)!) in units of 2^-20 for an integer m >= 1: the sum of the
\* logarithms below 8, Stirling's series from 8 on
\* (ln(2 PI) / 2 = 0.918939 = 963577 / 2^20)
LnGamma20[m \in Nat] ==
    IF m <= 2 THEN 0
    ELSE IF m < 8 THEN LnGamma20[m - 1] + Ln20(m - 1, 0)
    ELSE LET l == Ln20(m, 0)
         IN  m * l - (l \div 2) - m * (2^20) + 963577
               + ((2^20) \div (12 * m)) - (((2^20) \div (360 * m)) \div (m * m))

\* e^z for 0 <= z < 1 by its Taylor series
ExpSeries[z \in Int] ==
    LET z2 == FxMul(z, z)
        z3 == FxMul(z2, z)
        z4 == FxMul(z3, z)
        z5 == FxMul(z4, z)
        z6 == FxMul(z5, z)
    IN  FxOne + z + (z2 \div 2) + (z3 \div 6) + (z4 \div 24) + (z5 \div 120)
          + (z6 \div 720)

\* f64::exp, as 2^(x * log2 e) with log2 e = 1.442695 = 23637 / 2^14
Exp2[t \in Int] ==
    LET a == t \div FxOne
        r == ExpSeries[FxMul(t % FxOne, 11357)]
    IN  IF a >= 0 THEN r * (2^a)
        ELSE IF a < -30 THEN 0
        ELSE r \div (2^(-a))

FxExp(x) == Exp2[FxMul(x, 23637)]

\* tan(PI * i / 32) for i = 0 .. 15
TanTable ==
    <<0, 1614, 3259, 4970, 6786, 8757, 10947, 13446,
      16384, 19964, 24520, 30652, 39554, 54011, 82368, 166350>>

\* (PI * u).tan() for a uniform draw u, an Fx in [0, 1) on the grid of
\* thirty-seconds other than 1/2 (where tan(PI * u) is about 1.6e16)
FxTanPi(u) ==
    LET i == u \div (FxOne \div 32)
    IN  IF i < 16 THEN TanTable[i + 1] ELSE -TanTable[32 - i + 1]

(***************************************************************************)
(* Inputs                                                                  *)
(***************************************************************************)
\* the doubles nearest to 0.1, 0.3, 0.6, 0.7 and 0.9
P_0_1 == F64(FALSE, Mag(629152, 629145, 104857, 0))

P_0_3 == F64(FALSE, Mag(838848, 838860, 314572, 0))

P_0_6 == F64(FALSE, Mag(629120, 629145, 629145, 0))

P_0_7 == F64(FALSE, Mag(209664, 209715, 734003, 0))

P_0_9 == F64(FALSE, Mag(419456, 419430, 943718, 0))

\* the double just below 0.5, 0.5 - 2^-54
P_HalfPred == F64(FALSE, Mag(2^20 - 64, 2^20 - 1, 2^19 - 1, 0))

\* 2^-60
P_Tiny == F64(FALSE, Mag(1, 0, 0, 0))

ValidP == {P_Tiny, P_0_1, P_0_3, P_HalfPred, F64Half, P_0_6, P_0_7, P_0_9}

InvalidP == {NaN, F64(TRUE, Mag(0, 0, 0, 10)), F64Zero, F64One,
             F64(FALSE, Mag(0, 0, 2^19, 1))}

\* every p with a few small n, and the parameters of the tests and of the
\* documentation on either side of the threshold
SmallN == {0, 1, 2, 3, 4, 20}

Inputs ==
    {[n |-> n, p |-> p] : n \in SmallN, p \in ValidP \cup InvalidP}
      \cup {[n |-> 40, p |-> F64Half], [n |-> 50, p |-> F64Half],
            [n |-> 50, p |-> P_HalfPred], [n |-> 70, p |-> P_0_6],
            [n |-> 70, p |-> P_0_3], [n |-> 100, p |-> F64Half],
            [n |-> 100, p |-> P_0_7], [n |-> 150, p |-> P_0_1],
            [n |-> 250, p |-> P_0_1], [n |-> 250, p |-> P_0_3]}

\* the uniform draws offered to a proposal: thirty-seconds, as Fx
ProposalIdx == {0, 4, 8, 14, 15, 17, 18, 28}

UPropose == {i * (FxOne \div 32) : i \in ProposalIdx}

\* the uniform draws offered to an acceptance test whose weight is w: the
\* ends of [0, 1) and the values around w
UAccept(w) == {0, FxOne - 1} \cup ({w - 1, w, w + 1} \cap (0 .. (FxOne - 1)))

\* the longest sequence of draws of one call that is kept for feeding to a
\* second call
MaxTape == 3

(***************************************************************************)
(* Operations of sample, expression by expression                          *)
(***************************************************************************)
Threshold == 25

\* 1.2 = 19661 / 2^14
Envelope == 19661

\* let p = if self.p <= 0.5 { self.p } else { 1.0 - self.p };
Normalize(sp) == IF F64Le(sp, F64Half) THEN sp ELSE F64Sub(F64One, sp)

\* let expected = self.n as f64 * p;
Expected(n, p) == F64MulInt(n, p)

\* mutant: the threshold itself takes the direct path
IsDirect_Inclusive(expected) == F64Le(expected, F64OfInt(Threshold))

\* if expected < 25.0
IsDirect(expected) == F64Lt(expected, F64OfInt(Threshold))

\* mutant: the trials are drawn with the original probability
BoolProb_Original(sp, p) == sp

\* the probability handed to rng.gen_bool
BoolProb(sp, p) == p

\* mutant: the count starts from the value the previous call left
DirectStart_Carried(old) == old

\* let mut lresult = 0.0;
DirectStart(old) == 0

\* mutant: the loop runs one iteration short
DirectDone_OffByOne(i, n) == i >= n - 1

\* for _ in 0 .. self.n: the range is exhausted after i iterations
DirectDone(i, n) == i >= n

\* if rng.gen_bool(p) { lresult += 1.0; }
DirectAdd(lresult, b) == IF b THEN lresult + FxOne ELSE lresult

\* log_gamma(x) = ln Gamma(x) at the integer-valued arguments sample uses
LogGamma(x) == LnGamma20[x \div FxOne] \div (2^6)

\* let float_n = self.n as f64;
FloatN(n) == FxOfInt(n)

\* let pc = 1.0 - p;
Pc(p) == F64Sub(F64One, p)

\* let sq = (expected * (2.0 * pc)).sqrt();
Sq(expected, pc) ==
    FxSqrt(FxMul(FxOfF64(expected), FxMul(FxOfInt(2), FxOfF64(pc))))

\* comp_dev = (PI*rng.gen::<f64>()).tan();
CompDev(u) == FxTanPi(u)

\* lresult = expected + sq * comp_dev;
Candidate(expected, sq, comp_dev) == FxOfF64(expected) + FxMul(sq, comp_dev)

\* mutant: the two comparisons are the wrong way round
InRange_Swapped(lresult, float_n) == lresult <= 0 /\ lresult > float_n + FxOne

\* if lresult >= 0.0 && lresult < float_n + 1.0 { break; }
InRange(lresult, float_n) == lresult >= 0 /\ lresult < float_n + FxOne

\* mutant: the candidate is rounded up
Discretize_Ceil(lresult) == FxFloor(lresult + FxOne - 1)

\* lresult = lresult.floor();
Discretize(lresult) == FxFloor(lresult)

\* let log_binomial_dist = ln_fact_n - log_gamma(lresult+1.0) -
\*     log_gamma(float_n - lresult + 1.0) + lresult*log_p + (float_n - lresult)*log_pc;
LogBinomialDist(l, lresult) ==
    l.ln_fact_n - LogGamma(lresult + FxOne) - LogGamma(l.float_n - lresult + FxOne)
      + FxMul(lresult, l.log_p) + FxMul(l.float_n - lresult, l.log_pc)

\* let comparison_coeff = (log_binomial_dist.exp() * sq) * (1.2 * (1.0 + comp_dev*comp_dev));
ComparisonCoeff(l, lresult, comp_dev) ==
    FxMul(FxMul(FxExp(LogBinomialDist(l, lresult)), l.sq),
          FxMul(Envelope, FxOne + FxMul(comp_dev, comp_dev)))

\* mutant: a draw equal to the weight rejects
Accepts_Strict(comparison_coeff, u) == comparison_coeff > u

\* if comparison_coeff >= rng.gen() { break; }
Accepts(comparison_coeff, u) == comparison_coeff >= u

\* result as u64: towards zero, saturating at 0
AsU64(x) == IF x < 0 THEN 0 ELSE x \div FxOne

\* mutant: the flip is decided by the working probability being below 0.5
Flipped_ByValue(sp, p) == F64Lt(p, F64Half)

\* the flip test of the last statement: if p != self.p
Flipped(sp, p) == F64Ne(p, sp)

\* mutant: the result is never inverted
Restore_NoInvert(n, sp, p, result) == {[panic |-> FALSE, ret |-> AsU64(result)]}

\* if p != self.p { self.n - result as u64 } else { result as u64 }
\* The outcomes of the call: u64 subtraction below zero panics in a build with
\* overflow checks and wraps in one without (the wrapped value, far above n,
\* is kept modulo 2^30).
Restore(n, sp, p, result) ==
    IF Flipped(sp, p)
    THEN IF AsU64(result) > n
         THEN {[panic |-> TRUE, ret |-> 0],
               [panic |-> FALSE, ret |-> (n - AsU64(result)) % (2^30)]}
         ELSE {[panic |-> FALSE, ret |-> n - AsU64(result)]}
    ELSE {[panic |-> FALSE, ret |-> AsU64(result)]}

(***************************************************************************)
(* State                                                                   *)
(***************************************************************************)
VARIABLES
    status,   \* "none", "ok" (a sampler exists) or "panicked" (new aborted)
    self,     \* the sampler: [n, p]
    args,     \* the arguments of the call of Binomial::new that made it
    pc,       \* where sample stands: "idle", "direct", "propose", "accept",
              \* "done", "panic"
    loc,      \* the locals of sample
    rng,      \* the randomness source as seen by the current call
    prev      \* the outcome of the call whose draws are being fed again

vars == <<status, self, args, pc, loc, rng, prev>>

NoSelf == [n |-> 0, p |-> F64Zero]

NoLoc ==
    [p |-> F64Zero, expected |-> F64Zero, path |-> "none", i |-> 0,
     lresult |-> 0, float_n |-> 0, ln_fact_n |-> 0, pc |-> F64Zero,
     log_p |-> 0, log_pc |-> 0, sq |-> 0, comp_dev |-> 0,
     comparison_coeff |-> 0, result |-> 0, ret |-> 0]

\* mode: "fresh" (the source answers freely and the answers are recorded on
\* tape while they fit), "same" or "compl" (the source answers from the tape
\* of the previous call, to the same sampler or to its complement).
\* nbool, nf64: the gen_bool and gen::<f64> requests of the current call
\* (nf64 stops counting above MaxTape); ntrue: the gen_bool answers that were
\* true; probs: the probabilities gen_bool was asked for; u: the last proposal
\* draw; u2: the last acceptance draw.
NoRng ==
    [mode |-> "fresh", tape |-> <<>>, ok |-> TRUE, nbool |-> 0, nf64 |-> 0,
     ntrue |-> 0, probs |-> {}, u |-> 0, u2 |-> 0]

NoPrev == [n |-> 0, p |-> F64Zero, path |-> "none", nbool |-> 0, nf64 |-> 0, ret |-> 0]

Init ==
    /\ status = "none"
    /\ self = NoSelf
    /\ args = NoSelf
    /\ pc = "idle"
    /\ loc = NoLoc
    /\ rng = NoRng
    /\ prev = NoPrev

(***************************************************************************)
(* Binomial::new                                                           *)
(***************************************************************************)
\* mutant: p = 0.0 passes the first assertion
NewAccepts_Inclusive(n, p) == F64Ge(p, F64Zero) /\ F64Lt(p, F64One)

\* assert!(p > 0.0, ...); assert!(p < 1.0, ...);
NewAccepts(n, p) == F64Gt(p, F64Zero) /\ F64Lt(p, F64One)

\* Binomial { n: n, p: p }
NewValue(n, p) == [n |-> n, p |-> p]

Construct(n, p) ==
    /\ args' = [n |-> n, p |-> p]
    /\ IF NewAccepts(n, p)
       THEN status' = "ok" /\ self' = NewValue(n, p)
       ELSE status' = "panicked" /\ self' = NoSelf

New ==
    /\ status = "none"
    /\ \E in \in Inputs : Construct(in.n, in.p)
    /\ UNCHANGED <<pc, loc, rng, prev>>

(***************************************************************************)
(* The randomness source                                                   *)
(***************************************************************************)
\* the answers the source may give to a request of this kind
Answers(kind, fresh) ==
    IF rng.mode = "fresh" THEN fresh
    ELSE IF rng.tape # <<>> /\ Head(rng.tape).k = kind THEN {Head(rng.tape).v}
    ELSE {}

Recorded(kind, v) ==
    IF rng.mode = "fresh"
    THEN IF rng.ok /\ Len(rng.tape) < MaxTape
         THEN [rng EXCEPT !.tape = Append(@, [k |-> kind, v |-> v])]
         ELSE [rng EXCEPT !.tape = <<>>, !.ok = FALSE]
    ELSE [rng EXCEPT !.tape = Tail(@)]

AfterBool(prob, b) ==
    [Recorded("bool", b) EXCEPT !.nbool = @ + 1,
                                !.ntrue = IF b THEN @ + 1 ELSE @,
                                !.probs = @ \cup {prob}]

CountF64(k) == IF k > MaxTape THEN k ELSE k + 1

AfterProposal(u) == [Recorded("f64", u) EXCEPT !.nf64 = CountF64(@), !.u = u]

AfterAccept(u) == [Recorded("f64", u) EXCEPT !.nf64 = CountF64(@), !.u2 = u]

(***************************************************************************)
(* sample                                                                  *)
(***************************************************************************)
\* the end of sample: the raw result is restored and returned
Return(l, result) ==
    \E out \in Restore(self.n, self.p, l.p, result) :
        /\ pc' = IF out.panic THEN "panic" ELSE "done"
        /\ loc' = [l EXCEPT !.result = result, !.ret = out.ret]

\* the rejection path's cached values
Prepare(l) ==
    LET pc_ == Pc(l.p)
    IN  [l EXCEPT !.float_n = FloatN(self.n),
                  !.ln_fact_n = LogGamma(FloatN(self.n) + FxOne),
                  !.pc = pc_,
                  !.log_p = FxLnF64(l.p),
                  !.log_pc = FxLnF64(pc_),
                  !.sq = Sq(l.expected, pc_)]

\* sample from its entry to its first request to the source, or to its return
Enter ==
    LET p == Normalize(self.p)
        expected == Expected(self.n, p)
        l == [NoLoc EXCEPT !.p = p, !.expected = expected]
    IN  IF IsDirect(expected)
        THEN LET d == [l EXCEPT !.path = "direct", !.lresult = DirectStart(loc.lresult)]
             IN  IF DirectDone(0, self.n)
                 THEN Return(d, d.lresult)
                 ELSE pc' = "direct" /\ loc' = d
        ELSE pc' = "propose" /\ loc' = Prepare([l EXCEPT !.path = "rejection"])

\* a call of sample with a source that answers freely
Sample ==
    /\ status = "ok"
    /\ pc \in {"idle", "done"}
    /\ rng.mode = "fresh" \/ pc = "done"
    /\ rng' = NoRng
    /\ prev' = NoPrev
    /\ Enter
    /\ UNCHANGED <<status, self, args>>

\* rng.gen_bool(p) answers b: one iteration of the direct path's loop
GenBool ==
    /\ pc = "direct"
    /\ \E b \in Answers("bool", BOOLEAN) :
          LET l == [loc EXCEPT !.i = @ + 1, !.lresult = DirectAdd(@, b)]
          IN  /\ rng' = AfterBool(BoolProb(self.p, loc.p), b)
              /\ IF DirectDone(l.i, self.n)
                 THEN Return(l, l.lresult)
                 ELSE pc' = "direct" /\ loc' = l
    /\ UNCHANGED <<status, self, args, prev>>

\* rng.gen::<f64>() answers u in the inner loop: one proposal
GenProposal ==
    /\ pc = "propose"
    /\ \E u \in Answers("f64", UPropose) :
          LET comp_dev == CompDev(u)
              lresult == Candidate(loc.expected, loc.sq, comp_dev)
          IN  /\ rng' = AfterProposal(u)
              /\ IF InRange(lresult, loc.float_n)
                 THEN /\ pc' = "accept"
                      /\ loc' = [loc EXCEPT
                            !.comp_dev = comp_dev,
                            !.lresult = Discretize(lresult),
                            !.comparison_coeff =
                                ComparisonCoeff(loc, Discretize(lresult), comp_dev)]
                 ELSE /\ pc' = "propose"
                      /\ loc' = [loc EXCEPT !.comp_dev = comp_dev,
                                            !.lresult = lresult]
    /\ UNCHANGED <<status, self, args, prev>>

\* rng.gen() answers u in the acceptance test
GenAccept ==
    /\ pc = "accept"
    /\ \E u \in Answers("f64", UAccept(loc.comparison_coeff)) :
          /\ rng' = AfterAccept(u)
          /\ IF Accepts(loc.comparison_coeff, u)
             THEN Return(loc, loc.lresult)
             ELSE pc' = "propose" /\ loc' = loc
    /\ UNCHANGED <<status, self, args, prev>>

(***************************************************************************)
(* Second calls fed the draws of the first                                 *)
(***************************************************************************)
Outcome ==
    [n |-> self.n, p |-> self.p, path |-> loc.path, nbool |-> rng.nbool,
     nf64 |-> rng.nf64, ret |-> loc.ret]

Replayable == status = "ok" /\ pc = "done" /\ rng.mode = "fresh" /\ rng.ok

\* sample is called again on the same sampler and the source repeats itself
SampleAgain ==
    /\ Replayable
    /\ prev' = Outcome
    /\ rng' = [NoRng EXCEPT !.mode = "same", !.tape = rng.tape]
    /\ Enter
    /\ UNCHANGED <<status, self, args>>

\* Binomial::new(n, 1.0 - p) makes the complementary sampler, and the source
\* will repeat itself for it
NewComplement ==
    /\ Replayable
    /\ Construct(self.n, F64Sub(F64One, self.p))
    /\ prev' = Outcome
    /\ rng' = [NoRng EXCEPT !.mode = "compl", !.tape = rng.tape]
    /\ pc' = "idle"
    /\ loc' = NoLoc

\* sample is called on the complementary sampler
SampleComplement ==
    /\ status = "ok"
    /\ pc = "idle"
    /\ rng.mode = "compl"
    /\ Enter
    /\ UNCHANGED <<status, self, args, rng, prev>>

Next ==
    \/ New
    \/ Sample
    \/ GenBool
    \/ GenProposal
    \/ GenAccept
    \/ SampleAgain
    \/ NewComplement
    \/ SampleComplement

Spec == Init /\ [][Next]_vars

(***************************************************************************)
(* The source under the assumption of the termination claim: it answers    *)
(* every gen_bool request, and again and again it answers a proposal       *)
(* request with a value whose candidate is in range and an acceptance      *)
(* request with a value not above the weight.                              *)
(***************************************************************************)
GoodProposal == GenProposal /\ pc' = "accept"

GoodAccept == GenAccept /\ pc' = "done"

\* the samplers whose calls are followed to their return
LiveN == {0, 2, 50, 100}

LiveP == {P_0_3, F64Half, P_0_6}

NewLive ==
    /\ status = "none"
    /\ \E n \in LiveN, p \in LiveP : Construct(n, p)
    /\ UNCHANGED <<pc, loc, rng, prev>>

LiveNext ==
    \/ NewLive
    \/ Sample
    \/ GenBool
    \/ GenProposal
    \/ GenAccept

FairSpec ==
    /\ Init
    /\ [][LiveNext]_vars
    /\ WF_vars(GenBool)
    /\ SF_vars(GoodProposal)
    /\ SF_vars(GoodAccept)

(***************************************************************************)
(* Properties                                                              *)
(***************************************************************************)
Running == pc \in {"direct", "propose", "accept"}

Draws == rng.nbool + rng.nf64

\* min(p, 1 - p)
MinP(sp) == IF F64Le(sp, F64Sub(F64One, sp)) THEN sp ELSE F64Sub(F64One, sp)

\* C1: every value sample returns lies in [0, n], on either path and with or
\* without the flip; with n = 0 it is 0.
C1_Range ==
    pc = "done" =>
        /\ loc.ret \in 0 .. self.n
        /\ self.n = 0 => loc.ret = 0

\* the rejection path returned n itself, unflipped
C1_Witness ==
    /\ pc = "done"
    /\ loc.path = "rejection"
    /\ ~F64Ne(loc.p, self.p)
    /\ loc.ret = self.n

\* C2 as stated: new panics exactly when p <= 0.0 or p >= 1.0, and otherwise
\* stores n and p unchanged.
C2_Original ==
    status # "none" =>
        /\ status = "panicked" <=>
              (F64Le(args.p, F64Zero) \/ F64Ge(args.p, F64One))
        /\ status = "ok" => self.n = args.n /\ self.p = args.p

\* C2 amended: new panics exactly when p <= 0.0, p >= 1.0 or p is a NaN;
\* otherwise it stores n and p unchanged, so that 0 < p < 1 holds of every
\* sampler.
C2_Validation ==
    status # "none" =>
        /\ status = "panicked" <=>
              (F64Le(args.p, F64Zero) \/ F64Ge(args.p, F64One) \/ args.p.nan)
        /\ status = "ok" =>
              /\ self.n = args.n /\ self.p = args.p
              /\ F64Lt(F64Zero, self.p) /\ F64Lt(self.p, F64One)

\* new was called with a NaN and panicked
C2_Witness == status = "panicked" /\ args.p.nan

\* C3 as stated: every call of sample consumes at least one draw, n = 0
\* included.
C3_Original == pc = "done" => Draws >= 1

\* C3 amended: every call of sample on a sampler with n >= 1 consumes at
\* least one draw.
C3_AtLeastOneDraw == pc = "done" /\ self.n >= 1 => Draws >= 1

\* a call with n = 1 returned after its single draw
C3_Witness == pc = "done" /\ self.n = 1 /\ Draws = 1

\* C4: sample leaves the sampler as new made it, and a second call fed the
\* draws of the first asks for the same draws and returns the same value.
C4_Stateless ==
    /\ status = "ok" => self.n = args.n /\ self.p = args.p
    /\ rng.mode = "same" =>
          /\ loc.path = prev.path
          /\ pc = "direct" => rng.tape # <<>> /\ Head(rng.tape).k = "bool"
          /\ pc \in {"propose", "accept"} =>
                rng.tape # <<>> /\ Head(rng.tape).k = "f64"
          /\ pc # "panic"
          /\ pc = "done" =>
                /\ rng.tape = <<>>
                /\ rng.nbool = prev.nbool /\ rng.nf64 = prev.nf64
                /\ loc.ret = prev.ret

\* a second call on the rejection path returned, fed the three draws of the
\* first, which had returned a value other than 0
C4_Witness ==
    /\ rng.mode = "same"
    /\ pc = "done"
    /\ loc.path = "rejection"
    /\ prev.nf64 = 3
    /\ prev.ret # 0

\* C5: sample never fails, a draw that does not let the rejection path leave
\* its loops keeps it in them, and under the assumption on the source every
\* call returns.
C5_Terminates ==
    /\ [](pc # "panic")
    /\ [][(pc \in {"propose", "accept"}) => (pc' \in {"propose", "accept", "done"})]_vars
    /\ (Running /\ rng.mode = "fresh") ~> (pc = "done")

\* a call returned from the rejection path after more draws than one
\* proposal and one acceptance test
C5_Witness ==
    /\ pc = "done"
    /\ rng.mode = "fresh"
    /\ loc.path = "rejection"
    /\ rng.nf64 > 2

\* C6: the path is the direct one exactly when n * min(p, 1 - p), as the
\* double the code computes, is below 25; the named parameters take the named
\* paths, and an expected value of 25 takes the rejection path.
C6_Dispatch ==
    loc.path # "none" =>
        /\ loc.path \in {"direct", "rejection"}
        /\ loc.path = "direct" <=>
              F64Lt(F64MulInt(self.n, MinP(self.p)), F64OfInt(25))
        /\ self.n = 20 /\ self.p = P_0_7 => loc.path = "direct"
        /\ self.n = 150 /\ self.p = P_0_1 => loc.path = "direct"
        /\ self.n = 100 /\ self.p = F64Half => loc.path = "rejection"
        /\ self.n = 70 /\ self.p = P_0_6 => F64Ne(loc.p, self.p)
        /\ loc.expected = F64OfInt(25) => loc.path = "rejection"

\* a call whose expected value is exactly 25 is on the rejection path
C6_Witness == loc.path = "rejection" /\ loc.expected = F64OfInt(25)

\* C7: the direct path asks for exactly n weighted booleans, each with the
\* normalised probability, for no uniform float, and its raw result is the
\* number of true answers.
C7_Direct ==
    loc.path = "direct" =>
        /\ rng.nf64 = 0
        /\ rng.probs \subseteq {MinP(self.p)}
        /\ rng.nbool <= self.n
        /\ pc = "done" =>
              /\ rng.nbool = self.n
              /\ loc.result = FxOfInt(rng.ntrue)

\* a direct call with n = 20 and p = 0.7 returned after 7 true answers
C7_Witness ==
    /\ pc = "done"
    /\ loc.path = "direct"
    /\ self.n = 20 /\ self.p = P_0_7
    /\ rng.ntrue = 7

C9_Cand(u) == FxOfF64(loc.expected) + FxMul(loc.sq, FxTanPi(u))

\* the weight of the floored candidate k and the deviate cd
C9_Weight(k, cd) ==
    FxMul(FxMul(FxExp(loc.ln_fact_n - LogGamma(k + FxOne)
                        - LogGamma(loc.float_n - k + FxOne)
                        + FxMul(k, loc.log_p)
                        + FxMul(loc.float_n - k, loc.log_pc)),
                loc.sq),
          FxMul(19661, FxOne + FxMul(cd, cd)))

C9_OneMoreF64 ==
    /\ rng'.nbool = rng.nbool
    /\ rng.nf64 <= MaxTape => rng'.nf64 = rng.nf64 + 1

\* C9: every step of the rejection path is one uniform draw and no weighted
\* boolean; a proposal whose candidate is below 0 or not below n + 1 is
\* discarded and followed by another proposal; one in range is floored and
\* followed by one acceptance draw u2, with the weight computed from the
\* floored candidate and the deviate of that proposal; the call returns the
\* floored candidate iff weight >= u2 and otherwise proposes afresh.
C9_Protocol ==
    [][/\ pc = "propose" =>
            /\ pc' \in {"propose", "accept"}
            /\ C9_OneMoreF64
            /\ pc' = "accept" <=>
                  (C9_Cand(rng'.u) >= 0
                     /\ C9_Cand(rng'.u) < FxOfInt(self.n + 1))
            /\ pc' = "accept" =>
                  /\ loc'.lresult = (C9_Cand(rng'.u) \div FxOne) * FxOne
                  /\ loc'.comparison_coeff =
                        C9_Weight(loc'.lresult, FxTanPi(rng'.u))
       /\ pc = "accept" =>
            /\ pc' \in {"propose", "done"}
            /\ C9_OneMoreF64
            /\ rng'.u = rng.u
            /\ pc' = "done" <=> loc.comparison_coeff >= rng'.u2
            /\ pc' = "done" => loc'.result = loc.lresult
            /\ pc' = "propose" => loc'.comparison_coeff = loc.comparison_coeff
       /\ loc.path = "rejection" => rng.nbool = 0
      ]_vars

\* the rejection path returned on an acceptance draw equal to a positive
\* weight, after one discarded proposal
C9_Witness ==
    /\ pc = "done"
    /\ loc.path = "rejection"
    /\ rng.mode = "fresh"
    /\ rng.nf64 = 3
    /\ loc.comparison_coeff > 0
    /\ rng.u2 = loc.comparison_coeff

\* what C10 says of the complementary sampler's call
C10_Complementary ==
    /\ loc.path # "none" => loc.path = prev.path
    /\ pc = "direct" => rng.tape # <<>> /\ Head(rng.tape).k = "bool"
    /\ pc \in {"propose", "accept"} => rng.tape # <<>> /\ Head(rng.tape).k = "f64"
    /\ pc = "done" =>
          /\ rng.tape = <<>>
          /\ rng.nbool = prev.nbool /\ rng.nf64 = prev.nf64
          /\ loc.ret + prev.ret = self.n

\* C10 as stated: for every valid p other than 0.5, the samplers for (n, p)
\* and (n, 1 - p), fed the same draws, take the same path, consume the same
\* draws and return values that sum to n.
C10_Original ==
    rng.mode = "compl" /\ status = "ok" /\ prev.p # F64Half => C10_Complementary

\* C10 amended: the same for every valid p above 0.5, where 1 - p is exact.
C10_SymmetryLaw ==
    rng.mode = "compl" /\ F64Gt(prev.p, F64Half) =>
        /\ status = "ok"
        /\ self.n = prev.n /\ self.p = F64Sub(F64One, prev.p)
        /\ C10_Complementary

\* the complement of a sampler with p > 0.5 returned from the rejection path
\* a value other than its partner's
C10_Witness ==
    /\ rng.mode = "compl"
    /\ F64Gt(prev.p, F64Half)
    /\ pc = "done"
    /\ loc.path = "rejection"
    /\ loc.ret # prev.ret

====
